---- MODULE Spec2Model ----
(***************************************************************************)
(* The time-entry lifecycle of raven-backend (src/routers/time_entries.py) *)
(* as a state machine over the two Firestore collections it uses,          *)
(* "activities" and "time_entries".                                        *)
(*                                                                         *)
(* Up to two requests are in service at a time.  A handler that reads a    *)
(* time entry, or queries them, before it writes is split at its write:    *)
(* <Op>Begin runs its reads and checks, <Op>Finish runs from its read of   *)
(* the clock to its response.  Of two overlapping requests one does all    *)
(* its store steps inside the other's window or they do not overlap at the *)
(* store at all (a read that precedes the other's write can be moved to    *)
(* just before its own write's predecessor without changing what either    *)
(* reads), so the model holds one request open and runs the other as one   *)
(* step: the handler's own name is that step.  Activities are inserted     *)
(* once and never rewritten, so an activity get is taken together with the *)
(* store step next to it.                                                  *)
(*                                                                         *)
(* Encodings.  Python None / Firestore null is the empty tuple and a       *)
(* present value v is <<v>>.  A str is a tuple of one-character strings.   *)
(* A stored datetime is its UTC instant in whole seconds.  A list of tags  *)
(* is the bag of its elements (list(set(..)) has no specified order), so   *)
(* duplicates are kept and order is not.                                   *)
(***************************************************************************)
EXTENDS Integers, Sequences, FiniteSets, Bags, TLC

(* ---- bounds of the model ---- *)
MaxTicks == 1
(* start and end of a measured range lie within this many half minutes of 0 *)
MaxHalfMinutes == 3
(* the longest notes text *)
MaxTextLen == 4

(* ---- program constants ---- *)
SecondsPerMinute == 60

Users == {"u1", "u2"}
ActivityNames == {"Reading"}

None == << >>
Some(v) == <<v>>
Val(o) == o[1]

(* one and a half minutes between two readings of the clock *)
TickSeconds == SecondsPerMinute + SecondsPerMinute \div 2

VARIABLES
    activities,     \* collection "activities": tuple of documents, id = index
    time_entries,   \* collection "time_entries": tuple of documents, id = index
    now,            \* datetime.utcnow(), seconds
    open,           \* the request between its reads and its write, with its locals
    resp,           \* the response (and store write) of the step just taken
    hist            \* per user, what followed the user's last successful Start

vars == <<activities, time_entries, now, open, resp, hist>>

(* ======================= pure functions ======================= *)

WordChars == {"a", "b", "d", "x"}
IsWord(c) == c \in WordChars

(* end of the run of word characters that starts at i *)
RECURSIVE WordEnd(_, _)
WordEnd(text, i) ==
    IF i <= Len(text) /\ IsWord(text[i]) THEN WordEnd(text, i + 1) ELSE i

(* re.findall(r'#(\w+)', text), scanning from i *)
RECURSIVE FindAll(_, _)
FindAll(text, i) ==
    IF i > Len(text) THEN << >>
    ELSE IF text[i] = "#" /\ WordEnd(text, i + 1) > i + 1
         THEN <<SubSeq(text, i + 1, WordEnd(text, i + 1) - 1)>>
                  \o FindAll(text, WordEnd(text, i + 1))
         ELSE FindAll(text, i + 1)

(* re.sub(r'#(\w+)', '', text), scanning from i *)
RECURSIVE SubAll(_, _)
SubAll(text, i) ==
    IF i > Len(text) THEN << >>
    ELSE IF text[i] = "#" /\ WordEnd(text, i + 1) > i + 1
         THEN SubAll(text, WordEnd(text, i + 1))
         ELSE <<text[i]>> \o SubAll(text, i + 1)

(* ''.join(text.split()): the words with nothing between them *)
RECURSIVE SplitJoinNoSeparator(_, _, _)
SplitJoinNoSeparator(text, i, acc) ==
    IF i > Len(text) THEN acc
    ELSE IF text[i] = " " THEN SplitJoinNoSeparator(text, i + 1, acc)
    ELSE SplitJoinNoSeparator(text, i + 1, acc \o <<text[i]>>)

(* ' '.join(text.strip().split()) *)
RECURSIVE SplitJoin(_, _, _)
SplitJoin(text, i, acc) ==
    IF i > Len(text) THEN acc
    ELSE IF text[i] = " " THEN SplitJoin(text, i + 1, acc)
    ELSE LET sep == IF acc # << >> /\ text[i - 1] = " " THEN <<" ">> ELSE << >>
         IN  SplitJoin(text, i + 1, acc \o sep \o <<text[i]>>)

extract_tags_from_text(text) ==
    IF text = << >>
    THEN [clean |-> << >>, tags |-> << >>]
    ELSE [clean |-> SplitJoin(SubAll(text, 1), 1, << >>),
          tags  |-> FindAll(text, 1)]

(* a list as the bag of its elements *)
ListBag(list) ==
    [t \in {list[i] : i \in DOMAIN list} |->
        Cardinality({i \in DOMAIN list : list[i] = t})]
(* list(set(list)) *)
ListSet(list) == SetToBag({list[i] : i \in DOMAIN list})

(* a datetime value: wall-clock seconds and tzinfo (None, or the offset) *)
Naive(w) == [wall |-> w, tz |-> None]
Aware(w, off) == [wall |-> w, tz |-> Some(off)]
Utc(t) == Aware(t, 0)
(* datetime.replace(tzinfo=pytz.UTC) on a naive value, as the handlers do *)
TagUtc(dt) == IF dt.tz = None THEN Utc(dt.wall) ELSE dt
(* the instant an aware datetime denotes, as Firestore stores it *)
Instant(dt) == dt.wall - Val(dt.tz)

(* integer division that rounds toward minus infinity *)
IntDivFloor(a, b) == a \div b

(* int(x / 60) of a float: rounds toward zero *)
IntDiv(a, b) == IF a >= 0 THEN a \div b ELSE -((-a) \div b)

(* calculate_duration, lines 96-99.  end_dt is Optional at the call in         *)
(* add_time_entry; the result is the int, or raised = TRUE for the TypeError *)
(* / AttributeError Python raises on None or on naive minus aware.           *)
Raised == [raised |-> TRUE, value |-> 0]
Returned(v) == [raised |-> FALSE, value |-> v]

calculate_duration(start_dt, end_dt) ==
    IF end_dt = None THEN Raised
    ELSE LET e == Val(end_dt)
             s == IF start_dt.tz = None /\ e.tz # None
                  THEN TagUtc(start_dt) ELSE start_dt
         IN  IF (s.tz = None) # (e.tz = None) THEN Raised
             ELSE IF s.tz = None
                  THEN Returned(IntDiv(e.wall - s.wall, SecondsPerMinute))
                  ELSE Returned(IntDiv(Instant(e) - Instant(s), SecondsPerMinute))

(* ======================= inputs ======================= *)

TagA == <<"a">>
TagX == <<"x">>
TextTagX == <<"#", "x">>                  \* "#x"
TextDoneX == <<"d", " ", "#", "x">>       \* "d #x"
OneHour == 60 * SecondsPerMinute

(* request bodies of POST / (TimeEntryCreate) *)
Body(start, end, notes, tags) ==
    [start_datetime |-> start, end_datetime |-> end, notes |-> notes, tags |-> tags]
(* request bodies of PATCH /{entry_id} (TimeEntryUpdate) *)
Patch(end, notes, tags) ==
    [end_datetime |-> end, notes |-> notes, tags |-> tags]

(* bodies and patches that exercise start, end and duration *)
TimeBodies ==
    { Body(Naive(0), None, None, << >>),
      Body(Naive(TickSeconds), Some(Aware(OneHour, OneHour)), None, << >>) }
TimePatches ==
    { Patch(None, None, None),
      Patch(Some(Naive(TickSeconds + SecondsPerMinute)), None, None),
      Patch(Some(Aware(OneHour, OneHour)), None, None) }

(* bodies and patches that exercise notes and tags *)
TagBodies ==
    { Body(Naive(0), Some(Naive(0)), None, << >>),
      Body(Naive(0), Some(Naive(0)), Some(TextDoneX), <<TagA>>) }
TagPatches ==
    { Patch(None, None, Some(<<TagX>>)),
      Patch(None, None, Some(<<TagX, TagX>>)),
      Patch(None, Some(TextTagX), None),
      Patch(None, Some(<< >>), Some(<<TagA>>)),
      Patch(Some(Naive(0)), Some(TextDoneX), None) }

(* bodies that exercise calculate_duration: every start and end, half a   *)
(* minute apart, around 0                                                  *)
DurationTimes ==
    {k * (SecondsPerMinute \div 2) : k \in -MaxHalfMinutes .. MaxHalfMinutes}
DurationBodies ==
    {Body(Naive(s), Some(Naive(e)), None, << >>) : s, e \in DurationTimes}

(* bodies that exercise extract_tags_from_text: every notes text of '#', a   *)
(* space and two word characters, up to MaxTextLen characters               *)
TextChars == {"#", " ", "a", "b"}
Texts == UNION {[1 .. n -> TextChars] : n \in 0 .. MaxTextLen}
NoteBodies == {Body(Naive(0), Some(Naive(0)), Some(t), << >>) : t \in Texts}

(* the document ids the store hands out, in this order *)
ActivityIds == {1, 2}
EntryIds == {1, 2}

(* ======================= the store ======================= *)

(* db.collection("activities").document(id).get(): exists, and the document *)
ActivityExists(aid) == aid \in DOMAIN activities
(* a check of existence alone *)
ActivityOwnedByAnyone(aid, uid) == ActivityExists(aid)
(* lines 145 and 202: the activity exists and is the caller's *)
ActivityOwned(aid, uid) == ActivityExists(aid) /\ activities[aid].user_id = uid
(* lines 280 and 348: the name, or "Unknown" *)
ActivityName(aid) == IF ActivityExists(aid) THEN activities[aid].name ELSE "Unknown"

EntryExists(eid) == eid \in DOMAIN time_entries

(* a query with no user filter *)
RunningEntriesOfAnyone(uid) ==
    {i \in DOMAIN time_entries : time_entries[i].is_running}

(* a query whose user filter selects the other users' entries *)
RunningEntriesOfOthers(uid) ==
    {i \in DOMAIN time_entries :
        time_entries[i].user_id # uid /\ time_entries[i].is_running}

(* line 207: the caller's entries with is_running == True *)
RunningEntries(uid) ==
    {i \in DOMAIN time_entries :
        time_entries[i].user_id = uid /\ time_entries[i].is_running}

(* entry_ref.update(updates): the named fields of one document *)
UpdateDoc(doc, updates) ==
    [f \in DOMAIN doc |-> IF f \in DOMAIN updates THEN updates[f] ELSE doc[f]]

(* ======================= requests ======================= *)

NoReq == [op |-> "none", user |-> "", id |-> 0, body |-> None, entry_data |-> None]
Request(op, uid, id, body, entry_data) ==
    [op |-> op, user |-> uid, id |-> id, body |-> body, entry_data |-> entry_data]

(* What a request came to: the handler (op), the caller (user), the id in   *)
(* its path or body (arg), its body (req), the status and the response body *)
(* (body); and of its store write: the document's id (id), the document as  *)
(* stored just before (before) and the fields written (wrote).              *)
NoResp == [op |-> "none", user |-> "", arg |-> 0, req |-> None, status |-> 0,
           body |-> None, id |-> 0, before |-> None, wrote |-> {}]
Response(op, uid, arg, req, status, body, id, before, wrote) ==
    [op |-> op, user |-> uid, arg |-> arg, req |-> req, status |-> status,
     body |-> body, id |-> id, before |-> before, wrote |-> wrote]

(* the TimeEntry response model built from a document and the resolved name *)
TimeEntry(doc, name) ==
    [id |-> doc.id, activity_id |-> doc.activity_id, activity_name |-> name,
     start_datetime |-> doc.start_datetime, end_datetime |-> doc.end_datetime,
     duration_minutes |-> doc.duration_minutes, notes |-> doc.notes,
     tags |-> doc.tags, is_running |-> doc.is_running, created_at |-> doc.created_at]

(* Of the response of stop_time_entry and update_time_entry, built from the *)
(* document as read and the fields written, the resolved name is kept.      *)
Named(name) == [activity_name |-> name]

(* entry_data = entry_doc.to_dict(): of the document as read, the fields the *)
(* handler's write and the name lookup depend on                            *)
Snapshot(doc) ==
    [activity_id |-> doc.activity_id, start_datetime |-> doc.start_datetime,
     tags |-> doc.tags]

(* no request is between its reads and its write *)
NoneOpen == open = NoReq
(* the open request is the user's *)
Busy(uid) == open.op # "none" /\ open.user = uid
(* room for the insert of this request and of the open one *)
RoomForEntry ==
    Len(time_entries) + (IF open.op = "start" THEN 1 ELSE 0) < Cardinality(EntryIds)

Init ==
    /\ activities = << >>
    /\ time_entries = << >>
    /\ now = 0
    /\ open = NoReq
    /\ resp = NoResp
    /\ hist = [u \in Users |-> "none"]

(* the clock advances *)
Tick ==
    /\ now < MaxTicks * TickSeconds
    /\ now' = now + TickSeconds
    /\ resp' = NoResp
    /\ UNCHANGED <<activities, time_entries, open>>

(* POST /activities: create_activity (and routers/activities.py add_activity) *)
create_activity(uid, name) ==
    /\ Len(activities) < Cardinality(ActivityIds)
    /\ LET new_id == Len(activities) + 1
       IN  /\ activities' = Append(activities,
                                [id |-> new_id, name |-> name, user_id |-> uid])
           /\ resp' = Response("create_activity", uid, 0, Some(name), 200,
                               Some([id |-> new_id, name |-> name, user_id |-> uid]),
                               new_id, None, {"id", "name", "user_id"})
    /\ UNCHANGED <<time_entries, now, open>>

(* a refusal that takes the newest entry back out of the store *)
FailRollingBack(op, uid, arg, req, status) ==
    /\ resp' = Response(op, uid, arg, req, status, None, 0, None, {})
    /\ time_entries' = SubSeq(time_entries, 1, Len(time_entries) - 1)
    /\ UNCHANGED <<activities, now, open>>

(* raise HTTPException(status): the response, and nothing else *)
Fail(op, uid, arg, req, status) ==
    /\ resp' = Response(op, uid, arg, req, status, None, 0, None, {})
    /\ UNCHANGED <<activities, time_entries, now, open>>

(* the request has read and checked; its write is still to come *)
Proceed(r) ==
    /\ NoneOpen
    /\ open' = r
    /\ resp' = NoResp
    /\ UNCHANGED <<activities, time_entries, now>>

(* ======================= POST / : add_time_entry ======================= *)

(* lines 143-146: the activity get and the 404 *)
AddStatus(uid, aid) == IF ActivityOwned(aid, uid) THEN 200 ELSE 404

(* lines 152-177: the document add_time_entry builds; raised when            *)
(* calculate_duration raises                                                *)
AddDocument(new_id, uid, aid, body, created_at) ==
    LET ext == extract_tags_from_text(IF body.notes = None THEN << >> ELSE Val(body.notes))
        start_datetime == TagUtc(body.start_datetime)
        end_datetime == IF body.end_datetime = None THEN None
                        ELSE Some(TagUtc(Val(body.end_datetime)))
        duration == calculate_duration(start_datetime, end_datetime)
    IN  [raised |-> duration.raised,
         doc |-> [id |-> new_id,
                  activity_id |-> aid,
                  start_datetime |-> Instant(start_datetime),
                  end_datetime |-> IF end_datetime = None THEN None
                                   ELSE Some(Instant(Val(end_datetime))),
                  duration_minutes |-> IF duration.raised THEN None
                                       ELSE Some(duration.value),
                  notes |-> IF ext.clean = << >> THEN None ELSE Some(ext.clean),
                  tags |-> ListSet(body.tags \o ext.tags),
                  is_running |-> end_datetime = None,
                  created_at |-> created_at,
                  user_id |-> uid]]

(* lines 143-192: the handler; its one read is of an activity, so it is one step *)
add_time_entry(uid, aid, body) ==
    /\ IF AddStatus(uid, aid) # 200
       THEN Fail("add", uid, aid, Some(body), AddStatus(uid, aid))
       ELSE LET new_id == Len(time_entries) + 1
                built == AddDocument(new_id, uid, aid, body, now)
            IN  IF built.raised
                THEN Fail("add", uid, aid, Some(body), 500)
                ELSE /\ RoomForEntry
                     /\ time_entries' = Append(time_entries, built.doc)
                     /\ resp' = Response("add", uid, aid, Some(body), 200,
                                         Some(TimeEntry(built.doc, activities[aid].name)),
                                         new_id, None, DOMAIN built.doc)
                     /\ UNCHANGED <<activities, now, open>>

(* ================= POST /start/{activity_id} : start_time_entry ================= *)

(* start_time_entry without its running-entry query *)
StartStatusNoConflict(uid, aid) == IF ~ActivityOwned(aid, uid) THEN 404 ELSE 200

(* the running-entry query ahead of the activity get *)
StartStatusRunningFirst(uid, aid) ==
    IF \E e \in DOMAIN time_entries :
           time_entries[e].user_id = uid /\ time_entries[e].is_running
    THEN 400
    ELSE IF ~ActivityOwned(aid, uid) THEN 404
    ELSE 200

(* a query for the caller's entries, running or not *)
StartStatusAnyEntry(uid, aid) ==
    IF ~ActivityOwned(aid, uid) THEN 404
    ELSE IF \E e \in DOMAIN time_entries : time_entries[e].user_id = uid THEN 400
    ELSE 200

(* lines 200-209: the activity get, the running-entry query and their errors *)
StartStatus(uid, aid) ==
    IF ~ActivityOwned(aid, uid) THEN 404
    ELSE IF RunningEntries(uid) # {} THEN 400
    ELSE 200

(* lines 214-225: the document start_time_entry builds *)
StartDocument(new_id, uid, aid, current_time) ==
    [id |-> new_id,
     activity_id |-> aid,
     start_datetime |-> current_time,
     end_datetime |-> None,
     duration_minutes |-> None,
     notes |-> None,
     tags |-> EmptyBag,
     is_running |-> TRUE,
     created_at |-> current_time,
     user_id |-> uid]

(* a set that looks for a running entry again, as a transaction would *)
StartSetChecked(uid, aid) ==
    /\ IF RunningEntries(uid) # {}
       THEN /\ resp' = Response("start", uid, aid, None, 400, None, 0, None, {})
            /\ UNCHANGED time_entries
       ELSE LET new_id == Len(time_entries) + 1
                doc == StartDocument(new_id, uid, aid, now)
            IN  /\ time_entries' = Append(time_entries, doc)
                /\ resp' = Response("start", uid, aid, None, 200,
                                    Some(TimeEntry(doc, activities[aid].name)),
                                    new_id, None, DOMAIN doc)
    /\ UNCHANGED <<activities, now>>

(* lines 211-240: read the clock, set the document, respond *)
StartSet(uid, aid) ==
    /\ LET new_id == Len(time_entries) + 1
           doc == StartDocument(new_id, uid, aid, now)
       IN  /\ time_entries' = Append(time_entries, doc)
           /\ resp' = Response("start", uid, aid, None, 200,
                               Some(TimeEntry(doc, activities[aid].name)),
                               new_id, None, DOMAIN doc)
    /\ UNCHANGED <<activities, now>>

StartBegin(uid, aid) ==
    /\ StartStatus(uid, aid) = 200
    /\ RoomForEntry
    /\ Proceed(Request("start", uid, aid, None, None))

StartFinish ==
    /\ open.op = "start"
    /\ StartSet(open.user, open.id)
    /\ open' = NoReq

(* the handler with no other request's store step inside it *)
start_time_entry(uid, aid) ==
    IF StartStatus(uid, aid) # 200
    THEN Fail("start", uid, aid, None, StartStatus(uid, aid))
    ELSE RoomForEntry /\ StartSet(uid, aid) /\ UNCHANGED open

(* ================= PATCH /{entry_id}/stop : stop_time_entry ================= *)

(* stop_time_entry without its ownership check *)
StopStatusNoOwner(uid, eid) ==
    IF ~EntryExists(eid) THEN 404
    ELSE IF ~time_entries[eid].is_running THEN 400
    ELSE 200

(* stop_time_entry without its is_running check *)
StopStatusNoRunning(uid, eid) ==
    IF ~EntryExists(eid) THEN 404
    ELSE IF time_entries[eid].user_id # uid THEN 403
    ELSE 200

(* lines 248-260: the entry get and the 404, 403, 400 *)
StopStatus(uid, eid) ==
    IF ~EntryExists(eid) THEN 404
    ELSE IF time_entries[eid].user_id # uid THEN 403
    ELSE IF ~time_entries[eid].is_running THEN 400
    ELSE 200

(* a stop that also moves the start to the time of the stop *)
StopUpdatesRestarting(entry_data, current_time) ==
    [start_datetime |-> current_time,
     end_datetime |-> Some(current_time),
     duration_minutes |->
        Some(calculate_duration(Utc(entry_data.start_datetime),
                                Some(Utc(current_time))).value),
     is_running |-> FALSE]

(* a duration taken from the end to the start *)
StopUpdatesReversed(entry_data, current_time) ==
    [end_datetime |-> Some(current_time),
     duration_minutes |->
        Some(calculate_duration(Utc(current_time),
                                Some(Utc(entry_data.start_datetime))).value),
     is_running |-> FALSE]

(* lines 262-274: the fields stop_time_entry writes *)
StopUpdates(entry_data, current_time) ==
    [end_datetime |-> Some(current_time),
     duration_minutes |->
        Some(calculate_duration(Utc(entry_data.start_datetime),
                                Some(Utc(current_time))).value),
     is_running |-> FALSE]

(* lines 262-293: read the clock, update the document, respond *)
StopUpdate(uid, eid, entry_data) ==
    /\ LET updates == StopUpdates(entry_data, now)
       IN  /\ time_entries' = [time_entries EXCEPT
                                  ![eid] = UpdateDoc(time_entries[eid], updates)]
           /\ resp' = Response("stop", uid, eid, None, 200,
                               Some(Named(ActivityName(entry_data.activity_id))),
                               eid, Some(time_entries[eid]), DOMAIN updates)
    /\ UNCHANGED <<activities, now>>

StopBegin(uid, eid) ==
    /\ StopStatus(uid, eid) = 200
    /\ Proceed(Request("stop", uid, eid, None, Some(Snapshot(time_entries[eid]))))

StopFinish ==
    /\ open.op = "stop"
    /\ StopUpdate(open.user, open.id, Val(open.entry_data))
    /\ open' = NoReq

(* the handler with no other request's store step inside it *)
stop_time_entry(uid, eid) ==
    IF StopStatus(uid, eid) # 200
    THEN Fail("stop", uid, eid, None, StopStatus(uid, eid))
    ELSE StopUpdate(uid, eid, Snapshot(time_entries[eid])) /\ UNCHANGED open

(* ================= PATCH /{entry_id} : update_time_entry ================= *)

(* lines 302-311: the entry get and the 404, 403 *)
UpdateStatus(uid, eid) ==
    IF ~EntryExists(eid) THEN 404
    ELSE IF time_entries[eid].user_id # uid THEN 403
    ELSE 200

(* an update that merges the supplied tags whether or not notes are given *)
NotesTagsUpdatesMergeAlways(entry_data, patch) ==
    IF patch.notes # None
    THEN LET ext == extract_tags_from_text(Val(patch.notes))
             new_tags == IF patch.tags = None THEN << >> ELSE Val(patch.tags)
         IN  [notes |-> IF ext.clean = << >> THEN None ELSE Some(ext.clean),
              tags |-> SetToBag(BagToSet(entry_data.tags)
                                    \cup BagToSet(ListSet(new_tags \o ext.tags)))]
    ELSE IF patch.tags # None
    THEN [tags |-> SetToBag(BagToSet(entry_data.tags)
                                \cup BagToSet(ListSet(Val(patch.tags))))]
    ELSE << >>

(* lines 315-324: the notes and tags part of updates *)
NotesTagsUpdates(entry_data, patch) ==
    IF patch.notes # None
    THEN LET ext == extract_tags_from_text(Val(patch.notes))
             new_tags == IF patch.tags = None THEN << >> ELSE Val(patch.tags)
         IN  [notes |-> IF ext.clean = << >> THEN None ELSE Some(ext.clean),
              tags |-> SetToBag(BagToSet(entry_data.tags)
                                    \cup BagToSet(ListSet(new_tags \o ext.tags)))]
    ELSE IF patch.tags # None
    THEN [tags |-> ListBag(Val(patch.tags))]
    ELSE << >>

(* an update that takes a body without end_datetime as clearing the end *)
EndUpdatesClearing(entry_data, patch) ==
    IF patch.end_datetime # None
    THEN LET end_datetime == TagUtc(Val(patch.end_datetime))
             duration == calculate_duration(Utc(entry_data.start_datetime),
                                            Some(end_datetime))
         IN  [end_datetime |-> Some(Instant(end_datetime)),
              duration_minutes |-> Some(duration.value),
              is_running |-> FALSE]
    ELSE [end_datetime |-> None, duration_minutes |-> None, is_running |-> TRUE]

(* an end written without its duration *)
EndUpdatesEndOnly(entry_data, patch) ==
    IF patch.end_datetime # None
    THEN [end_datetime |-> Some(Instant(TagUtc(Val(patch.end_datetime)))),
          is_running |-> FALSE]
    ELSE << >>

(* an end and a duration written without is_running *)
EndUpdatesKeepRunning(entry_data, patch) ==
    IF patch.end_datetime # None
    THEN LET end_datetime == TagUtc(Val(patch.end_datetime))
             duration == calculate_duration(Utc(entry_data.start_datetime),
                                            Some(end_datetime))
         IN  [end_datetime |-> Some(Instant(end_datetime)),
              duration_minutes |-> Some(duration.value)]
    ELSE << >>

(* lines 326-340: the end, duration and running part of updates *)
EndUpdates(entry_data, patch) ==
    IF patch.end_datetime # None
    THEN LET end_datetime == TagUtc(Val(patch.end_datetime))
             duration == calculate_duration(Utc(entry_data.start_datetime),
                                            Some(end_datetime))
         IN  [end_datetime |-> Some(Instant(end_datetime)),
              duration_minutes |-> Some(duration.value),
              is_running |-> FALSE]
    ELSE << >>

(* lines 313-340: the dict updates *)
UpdateUpdates(entry_data, patch) ==
    NotesTagsUpdates(entry_data, patch) @@ EndUpdates(entry_data, patch)

(* lines 313-361: build updates, update the document if any, respond *)
UpdateUpdate(uid, eid, entry_data, patch) ==
    /\ LET updates == UpdateUpdates(entry_data, patch)
       IN  /\ time_entries' =
                  IF DOMAIN updates # {}
                  THEN [time_entries EXCEPT
                           ![eid] = UpdateDoc(time_entries[eid], updates)]
                  ELSE time_entries
           /\ resp' = Response("update", uid, eid, Some(patch), 200,
                               Some(Named(ActivityName(entry_data.activity_id))),
                               eid, Some(time_entries[eid]), DOMAIN updates)
    /\ UNCHANGED <<activities, now>>

UpdateBegin(uid, eid, patch) ==
    /\ UpdateStatus(uid, eid) = 200
    /\ Proceed(Request("update", uid, eid, Some(patch), Some(Snapshot(time_entries[eid]))))

UpdateFinish ==
    /\ open.op = "update"
    /\ UpdateUpdate(open.user, open.id, Val(open.entry_data), Val(open.body))
    /\ open' = NoReq

(* the handler with no other request's store step inside it *)
update_time_entry(uid, eid, patch) ==
    IF UpdateStatus(uid, eid) # 200
    THEN Fail("update", uid, eid, Some(patch), UpdateStatus(uid, eid))
    ELSE UpdateUpdate(uid, eid, Snapshot(time_entries[eid]), patch) /\ UNCHANGED open

(* ======================= GET : the queries ======================= *)

(* datetime.date, and the days from 1970-01-01 to it (date.toordinal) *)
Date(y, m, d) == [year |-> y, month |-> m, day |-> d]
EpochYear == 1970
MonthsPerYear == 12
IsLeap(y) == y % 4 = 0 /\ (y % 100 # 0 \/ y % 400 = 0)
DaysInMonth(y, m) ==
    IF m = 2 THEN (IF IsLeap(y) THEN 29 ELSE 28)
    ELSE IF m \in {4, 6, 9, 11} THEN 30 ELSE 31
RECURSIVE DaysBeforeMonth(_, _)
DaysBeforeMonth(y, m) ==
    IF m = 1 THEN 0 ELSE DaysBeforeMonth(y, m - 1) + DaysInMonth(y, m - 1)
RECURSIVE DaysBeforeYear(_)
DaysBeforeYear(y) ==
    IF y = EpochYear THEN 0
    ELSE DaysBeforeYear(y - 1) + DaysBeforeMonth(y - 1, MonthsPerYear)
             + DaysInMonth(y - 1, MonthsPerYear)
Ordinal(d) == DaysBeforeYear(d.year) + DaysBeforeMonth(d.year, d.month) + d.day - 1

(* date.fromordinal: the date n days after the first of month m of year y *)
RECURSIVE FromDays(_, _, _)
FromDays(n, y, m) ==
    IF n < DaysInMonth(y, m) THEN Date(y, m, n + 1)
    ELSE IF m = MonthsPerYear THEN FromDays(n - DaysInMonth(y, m), y + 1, 1)
    ELSE FromDays(n - DaysInMonth(y, m), y, m + 1)
FromOrdinal(n) == FromDays(n, EpochYear, 1)

SecondsPerDay == 24 * OneHour
(* datetime.combine(d, datetime.min.time()): 00:00:00, naive *)
MinTime(d) == Naive(Ordinal(d) * SecondsPerDay)
(* datetime.combine(d, datetime.max.time()): 23:59:59.999999, naive.  The   *)
(* model's instants are whole seconds, which lie at or before it exactly    *)
(* when they lie at or before 23:59:59.                                     *)
MaxTime(d) == Naive(Ordinal(d) * SecondsPerDay + SecondsPerDay - 1)

(* date.today(), the server's zone being UTC *)
Today == FromOrdinal(now \div SecondsPerDay)

(* lines 72-76 *)
get_utc_datetime(dt) == IF dt.tz = None THEN Utc(dt.wall) ELSE Utc(Instant(dt))

(* lines 78-82 *)
get_date_range(target_date) ==
    [start |-> get_utc_datetime(MinTime(target_date)),
     end |-> get_utc_datetime(MaxTime(target_date))]

(* lines 509-516: the first day of today's month and its last day *)
MonthRange(today) ==
    LET first == Date(today.year, today.month, 1)
        next_first == IF today.month = MonthsPerYear
                      THEN Date(today.year + 1, 1, 1)
                      ELSE Date(today.year, today.month + 1, 1)
        last == FromOrdinal(Ordinal(next_first) - 1)
    IN  [start |-> get_utc_datetime(MinTime(first)),
         end |-> get_utc_datetime(MaxTime(last))]

(* lines 563-566: January 1 and December 31 of today's year *)
YearRange(today) ==
    [start |-> get_utc_datetime(MinTime(Date(today.year, 1, 1))),
     end |-> get_utc_datetime(MaxTime(Date(today.year, MonthsPerYear, 31)))]

(* a query with no user filter *)
AllEntries(uid) == DOMAIN time_entries
(* where user_id == uid *)
OwnEntries(uid) == {e \in DOMAIN time_entries : time_entries[e].user_id = uid}

(* a range open at its end *)
BetweenHalfOpen(ids, range) ==
    {e \in ids : /\ time_entries[e].start_datetime >= Instant(range.start)
                 /\ time_entries[e].start_datetime < Instant(range.end)}
(* where start_datetime >= range.start, where start_datetime <= range.end *)
Between(ids, range) ==
    {e \in ids : /\ time_entries[e].start_datetime >= Instant(range.start)
                 /\ time_entries[e].start_datetime <= Instant(range.end)}

(* order_by start_datetime descending; entries with one start by id, descending *)
RECURSIVE OrderByStart(_)
OrderByStart(ids) ==
    IF ids = {} THEN << >>
    ELSE LET first == CHOOSE e \in ids :
                          \A f \in ids :
                              \/ time_entries[e].start_datetime
                                     > time_entries[f].start_datetime
                              \/ /\ time_entries[e].start_datetime
                                        = time_entries[f].start_datetime
                                 /\ e >= f
         IN  <<first>> \o OrderByStart(ids \ {first})

(* a test that lets only positive durations through *)
TruthyPositive(duration) == duration # None /\ Val(duration) > 0
(* if entry_data.get("duration_minutes"): neither None nor 0 *)
Truthy(duration) == duration # None /\ Val(duration) # 0

(* the loop over docs: total_minutes *)
RECURSIVE TotalMinutes(_)
TotalMinutes(docs) ==
    IF docs = << >> THEN 0
    ELSE (IF Truthy(time_entries[Head(docs)].duration_minutes)
          THEN Val(time_entries[Head(docs)].duration_minutes) ELSE 0)
             + TotalMinutes(Tail(docs))

(* round(total_minutes / 60, 2), in hundredths of an hour: total * 100 / 60 *)
(* is never halfway between two integers                                    *)
TotalHours(total_minutes) == (total_minutes * 10 + 3) \div 6

(* the loop over docs: entries *)
Entries(docs) ==
    [i \in DOMAIN docs |->
        TimeEntry(time_entries[docs[i]], ActivityName(time_entries[docs[i]].activity_id))]

(* TimeEntryWithTotal *)
WithTotal(docs) ==
    [entries |-> Entries(docs),
     total_minutes |-> TotalMinutes(docs),
     total_hours |-> TotalHours(TotalMinutes(docs))]

(* a query: its response, and no write *)
Answer(op, uid, req, body) ==
    /\ resp' = Response(op, uid, 0, req, 200, Some(body), 0, None, {})
    /\ UNCHANGED <<activities, time_entries, now, open>>

(* lines 364-407 *)
list_time_entries(uid, activity_id) ==
    LET query == IF activity_id # None
                 THEN {e \in OwnEntries(uid) :
                          time_entries[e].activity_id = Val(activity_id)}
                 ELSE OwnEntries(uid)
    IN  Answer("list", uid, activity_id, WithTotal(OrderByStart(query)))

(* lines 409-454 *)
get_today_entries(uid) ==
    Answer("today", uid, Some(Today),
           WithTotal(OrderByStart(Between(OwnEntries(uid), get_date_range(Today)))))

(* lines 456-503 *)
get_date_entries(uid, selected_date) ==
    Answer("date", uid, Some(selected_date),
           WithTotal(OrderByStart(Between(OwnEntries(uid),
                                          get_date_range(selected_date)))))

(* lines 505-557 *)
get_this_month_entries(uid) ==
    Answer("month", uid, Some(Today),
           WithTotal(OrderByStart(Between(OwnEntries(uid), MonthRange(Today)))))

(* lines 559-607 *)
get_this_year_entries(uid) ==
    Answer("year", uid, Some(Today),
           WithTotal(OrderByStart(Between(OwnEntries(uid), YearRange(Today)))))

(* lines 609-653 *)
get_entries_by_tag(uid, tag) ==
    Answer("tag", uid, Some(tag),
           WithTotal(OrderByStart({e \in OwnEntries(uid) :
                                      BagIn(tag, time_entries[e].tags)})))

(* lines 655-686: a list of entries, in no stated order and with no total *)
get_running_entries(uid) ==
    Answer("running", uid, None,
           [entries |-> Entries(OrderByStart({e \in OwnEntries(uid) :
                                                 time_entries[e].is_running}))])

(* ======================= specifications ======================= *)

(* hist, kept in serial runs: what followed the user's last successful      *)
(* Start.  "started": nothing yet; "patched": an Update carrying            *)
(* end_datetime and no Stop; "stopped": a Stop; "refused": a Stop answered  *)
(* 400 after "patched".                                                     *)
Mark(serial, uid, what) ==
    hist' = IF serial THEN [hist EXCEPT ![uid] = what] ELSE hist
AfterStart(uid, status) == IF status = 200 THEN "started" ELSE hist[uid]
AfterStop(uid, status) ==
    IF hist[uid] = "patched" /\ status = 400 THEN "refused" ELSE "stopped"
AfterUpdate(uid, patch) ==
    IF patch.end_datetime # None /\ hist[uid] = "started" THEN "patched" ELSE hist[uid]

(* the response is sent; the next store step comes after it *)
Deliver ==
    /\ resp # NoResp
    /\ resp' = NoResp
    /\ UNCHANGED <<activities, time_entries, now, open, hist>>
Quiet == resp = NoResp

(* serial: a user's requests do not overlap one another *)
Ready(serial, uid) == Quiet /\ (serial => ~Busy(uid))

Clock == Quiet /\ Tick /\ UNCHANGED hist

Handlers(users, bodies, patches, serial) ==
    \/ \E u \in users, n \in ActivityNames :
           Quiet /\ create_activity(u, n) /\ UNCHANGED hist
    \/ \E u \in users, a \in ActivityIds, b \in bodies :
           Ready(serial, u) /\ add_time_entry(u, a, b) /\ UNCHANGED hist
    \/ \E u \in users, a \in ActivityIds :
           /\ Ready(serial, u)
           /\ start_time_entry(u, a)
           /\ Mark(serial, u, AfterStart(u, StartStatus(u, a)))
    \/ \E u \in users, a \in ActivityIds :
           Quiet /\ StartBegin(u, a) /\ UNCHANGED hist
    \/ Quiet /\ StartFinish /\ Mark(serial, open.user, "started")
    \/ \E u \in users, e \in EntryIds :
           /\ Ready(serial, u)
           /\ stop_time_entry(u, e)
           /\ Mark(serial, u, AfterStop(u, StopStatus(u, e)))
    \/ \E u \in users, e \in EntryIds :
           Quiet /\ StopBegin(u, e) /\ Mark(serial, u, "stopped")
    \/ Quiet /\ StopFinish /\ UNCHANGED hist
    \/ \E u \in users, e \in EntryIds, b \in patches :
           /\ Ready(serial, u)
           /\ update_time_entry(u, e, b)
           /\ Mark(serial, u, AfterUpdate(u, b))
    \/ \E u \in users, e \in EntryIds, b \in patches :
           Quiet /\ UpdateBegin(u, e, b) /\ Mark(serial, u, AfterUpdate(u, b))
    \/ Quiet /\ UpdateFinish /\ UNCHANGED hist

(* requests of any users overlap; start, end and duration are exercised *)
Next == Deliver \/ Clock \/ Handlers(Users, TimeBodies, TimePatches, FALSE)
Spec == Init /\ [][Next]_vars

(* as Spec, with each user's requests one at a time *)
NextSerial == Deliver \/ Clock \/ Handlers(Users, TimeBodies, TimePatches, TRUE)
SpecSerial == Init /\ [][NextSerial]_vars

(* the requests of one user overlap; notes and tags are exercised, the clock stands *)
NextTags == Deliver \/ Handlers({"u1"}, TagBodies, TagPatches, FALSE)
SpecTags == Init /\ [][NextTags]_vars

(* bodies, patches and parameters that exercise the queries: entries that  *)
(* start at the first and at the last instant of 1970-01-01, one minute    *)
(* after it, on 1970-02-01 and on 1971-01-01, of 30, 45, -1, 0 and 0       *)
(* minutes                                                                 *)
QueryBodies ==
    LET last == SecondsPerDay - 1
        february == Ordinal(Date(EpochYear, 2, 1)) * SecondsPerDay
        next_year == Ordinal(Date(EpochYear + 1, 1, 1)) * SecondsPerDay
    IN  { Body(Naive(0), Some(Naive(OneHour \div 2)), None, <<TagA>>),
          Body(Naive(last), Some(Naive(last + 45 * SecondsPerMinute)), None, << >>),
          Body(Naive(last + SecondsPerMinute),
               Some(Naive(last + SecondsPerMinute - TickSeconds)), None, << >>),
          Body(Naive(february), Some(Naive(february)), None, << >>),
          Body(Naive(next_year), Some(Naive(next_year)), None, << >>) }
QueryPatches == {Patch(None, None, Some(<<TagX>>))}
SelectedDates == {Date(EpochYear, 1, 1), Date(EpochYear, 1, 2)}
QueryTags == {TagA, TagX}

(* requests one at a time, the clock standing; every query on every store *)
NextQuery ==
    \/ Deliver
    \/ \E u \in Users, n \in ActivityNames :
           Quiet /\ create_activity(u, n) /\ UNCHANGED hist
    \/ \E u \in Users, a \in ActivityIds, b \in QueryBodies :
           Quiet /\ add_time_entry(u, a, b) /\ UNCHANGED hist
    \/ \E u \in Users, a \in ActivityIds :
           Quiet /\ start_time_entry(u, a) /\ UNCHANGED hist
    \/ \E u \in Users, e \in EntryIds :
           Quiet /\ stop_time_entry(u, e) /\ UNCHANGED hist
    \/ \E u \in Users, e \in EntryIds, b \in QueryPatches :
           Quiet /\ update_time_entry(u, e, b) /\ UNCHANGED hist
    \/ \E u \in Users, a \in {None} \cup {Some(i) : i \in ActivityIds} :
           Quiet /\ list_time_entries(u, a) /\ UNCHANGED hist
    \/ \E u \in Users : Quiet /\ get_today_entries(u) /\ UNCHANGED hist
    \/ \E u \in Users, d \in SelectedDates :
           Quiet /\ get_date_entries(u, d) /\ UNCHANGED hist
    \/ \E u \in Users : Quiet /\ get_this_month_entries(u) /\ UNCHANGED hist
    \/ \E u \in Users : Quiet /\ get_this_year_entries(u) /\ UNCHANGED hist
    \/ \E u \in Users, t \in QueryTags :
           Quiet /\ get_entries_by_tag(u, t) /\ UNCHANGED hist
    \/ \E u \in Users : Quiet /\ get_running_entries(u) /\ UNCHANGED hist
SpecQuery == Init /\ [][NextQuery]_vars

(* one user adds entries over every measured range *)
NextDuration ==
    \/ Deliver
    \/ \E n \in ActivityNames : Quiet /\ create_activity("u1", n) /\ UNCHANGED hist
    \/ \E a \in ActivityIds, b \in DurationBodies :
           Quiet /\ add_time_entry("u1", a, b) /\ UNCHANGED hist
SpecDuration == Init /\ [][NextDuration]_vars

(* one user adds a first entry with any notes text *)
NextNotes ==
    \/ Deliver
    \/ \E n \in ActivityNames : Quiet /\ create_activity("u1", n) /\ UNCHANGED hist
    \/ \E a \in ActivityIds, b \in NoteBodies :
           /\ Quiet /\ time_entries = << >>
           /\ add_time_entry("u1", a, b) /\ UNCHANGED hist
SpecNotes == Init /\ [][NextNotes]_vars

(* ======================= properties ======================= *)

(* C1 -- When no two requests of an owner overlap, every owner has at most  *)
(* one entry with is_running true, after any sequence of add, start, stop   *)
(* and update requests.  (SpecSerial)                                       *)
C1_AtMostOneRunning ==
    \A u \in Users : Cardinality(RunningEntries(u)) <= 1

(* an owner is running an entry after having closed another one *)
C1_Witness ==
    \E u \in Users :
        /\ Cardinality(RunningEntries(u)) = 1
        /\ \E e \in DOMAIN time_entries :
               time_entries[e].user_id = u /\ ~time_entries[e].is_running

(* C2 -- Start is not atomic: a Start whose running-entry query has found   *)
(* nothing inserts its running entry and answers 200 whatever has been      *)
(* written since the query, so two overlapping Starts of one owner both     *)
(* succeed and leave the owner with two running entries.  (Spec)            *)
C2_StaleStartSucceeds ==
    [][open.op = "start" /\ open' = NoReq =>
          /\ resp'.op = "start" /\ resp'.user = open.user /\ resp'.status = 200
          /\ Len(time_entries') = Len(time_entries) + 1
          /\ time_entries'[Len(time_entries')].user_id = open.user
          /\ time_entries'[Len(time_entries')].is_running]_vars

(* the second of two overlapping Starts has answered 200 and the owner has  *)
(* two running entries                                                      *)
C2_Witness ==
    /\ resp.op = "start" /\ resp.status = 200
    /\ Cardinality(RunningEntries(resp.user)) = 2

RunFields == {"end_datetime", "duration_minutes", "is_running"}

(* C3 -- In every stored entry is_running is true exactly when end_datetime *)
(* is null, and end_datetime is null exactly when duration_minutes is null; *)
(* a write that carries one of the three fields carries all three.  (Spec)  *)
C3_RunFieldsCoupled ==
    /\ \A e \in DOMAIN time_entries :
           /\ time_entries[e].is_running <=> time_entries[e].end_datetime = None
           /\ time_entries[e].end_datetime = None
                  <=> time_entries[e].duration_minutes = None
    /\ resp.wrote \cap RunFields \in {{}, RunFields}

(* an Update has closed an entry that was running, writing the three fields *)
C3_Witness ==
    /\ resp.op = "update" /\ resp.status = 200
    /\ RunFields \subseteq resp.wrote
    /\ Val(resp.before).is_running
    /\ ~time_entries[resp.id].is_running

(* C4 as stated -- If a Start of an owner succeeds and no Stop of that      *)
(* owner comes before the owner's next Start (on an activity of the         *)
(* owner), that Start fails with 400 and writes nothing.  (SpecSerial)      *)
C4_AsStated ==
    [][resp'.op = "start" /\ resp'.status # 404
          /\ hist[resp'.user] \in {"started", "patched"} =>
              resp'.status = 400 /\ UNCHANGED time_entries]_vars

(* C4 -- If a Start of an owner succeeds and neither a Stop nor an Update   *)
(* carrying end_datetime of that owner comes before the owner's next Start, *)
(* that Start, when it names an activity of the owner, fails with 400,      *)
(* writes nothing and leaves every stored entry as it was.  (SpecSerial)    *)
C4_SecondStartConflicts ==
    [][resp'.op = "start" /\ resp'.status # 404
          /\ hist[resp'.user] = "started" =>
              resp'.status = 400 /\ UNCHANGED time_entries]_vars

(* a Start has been answered 400 with nothing but a successful Start of the *)
(* same owner before it                                                     *)
C4_Witness ==
    /\ resp.op = "start" /\ resp.status = 400
    /\ hist[resp.user] = "started"
    /\ Cardinality(RunningEntries(resp.user)) = 1

(* C5 -- A successful Stop leaves the stored entry with is_running false,   *)
(* end_datetime the time of the Stop and duration_minutes the value of      *)
(* calculate_duration for the stored start and that end.  (Spec)            *)
C5_StopCloses ==
    resp.op = "stop" /\ resp.status = 200 =>
        LET entry == time_entries[resp.id]
        IN  /\ ~entry.is_running
            /\ entry.end_datetime = Some(now)
            /\ entry.duration_minutes =
                   Some(calculate_duration(Utc(entry.start_datetime),
                                           Some(Utc(now))).value)

(* an entry started at 0 has been stopped one and a half minutes later: one *)
(* minute                                                                   *)
C5_Witness ==
    /\ resp.op = "stop" /\ resp.status = 200
    /\ Val(resp.before).is_running
    /\ time_entries[resp.id].start_datetime = 0
    /\ time_entries[resp.id].end_datetime = Some(TickSeconds)
    /\ time_entries[resp.id].duration_minutes = Some(1)

(* C6 -- Stop answers 404 when the entry does not exist, 403 when it is     *)
(* owned by another user and 400 when it is the caller's and not running,   *)
(* and writes nothing in each case; a Stop goes on to its write only from   *)
(* an existing, owned, running entry.  (Spec)                               *)
C6_StopRefusals ==
    [][/\ resp'.op = "stop" /\ open' = open =>
             LET uid == resp'.user
                 eid == resp'.arg
             IN  /\ ~EntryExists(eid) =>
                        resp'.status = 404 /\ UNCHANGED time_entries
                 /\ EntryExists(eid) /\ time_entries[eid].user_id # uid =>
                        resp'.status = 403 /\ UNCHANGED time_entries
                 /\ EntryExists(eid) /\ time_entries[eid].user_id = uid
                       /\ ~time_entries[eid].is_running =>
                        resp'.status = 400 /\ UNCHANGED time_entries
       /\ open.op = "none" /\ open'.op = "stop" =>
             /\ EntryExists(open'.id)
             /\ time_entries[open'.id].user_id = open'.user
             /\ time_entries[open'.id].is_running]_vars

(* the caller's own closed entry: Stop has answered 400 *)
C6_Witness ==
    /\ resp.op = "stop" /\ resp.status = 400 /\ resp.wrote = {}
    /\ EntryExists(resp.arg)
    /\ time_entries[resp.arg].user_id = resp.user
    /\ ~time_entries[resp.arg].is_running

(* another user's entry: Stop has answered 403 *)
C6_WitnessForbidden ==
    /\ resp.op = "stop" /\ resp.status = 403
    /\ EntryExists(resp.arg)
    /\ time_entries[resp.arg].user_id # resp.user

(* no such entry: Stop has answered 404 *)
C6_WitnessNotFound ==
    resp.op = "stop" /\ resp.status = 404 /\ ~EntryExists(resp.arg)

(* C7 as stated -- add_time_entry on an activity of the caller persists and *)
(* returns an entry for every body: running, with end_datetime and          *)
(* duration_minutes null, when the body has no end_datetime, and closed,    *)
(* with the body's end and its duration, when it has one.  (Spec)           *)
C7_AsStated ==
    resp.op = "add" /\ ActivityOwned(resp.arg, resp.user) =>
        /\ resp.status = 200
        /\ resp.body # None
        /\ EntryExists(resp.id)
        /\ LET entry == time_entries[resp.id]
               body == Val(resp.req)
           IN  IF body.end_datetime = None
               THEN /\ entry.is_running
                    /\ entry.end_datetime = None
                    /\ entry.duration_minutes = None
               ELSE /\ ~entry.is_running
                    /\ entry.end_datetime =
                           Some(Instant(TagUtc(Val(body.end_datetime))))
                    /\ entry.duration_minutes # None

(* C8 -- add_time_entry and start_time_entry answer 404 whenever the        *)
(* activity they name does not exist or is another user's, and write no     *)
(* entry; a Start goes on to its write only for an activity of the caller.  *)
(* (Spec)                                                                   *)
C8_ActivityNotFound ==
    [][/\ resp'.op \in {"add", "start"}
          /\ (resp'.arg \notin DOMAIN activities
                \/ activities[resp'.arg].user_id # resp'.user) =>
              resp'.status = 404 /\ UNCHANGED time_entries
       /\ open.op = "none" /\ open'.op = "start" =>
              /\ open'.id \in DOMAIN activities
              /\ activities[open'.id].user_id = open'.user]_vars

(* Start on another user's activity has answered 404 *)
C8_Witness ==
    /\ resp.op = "start" /\ resp.status = 404 /\ resp.wrote = {}
    /\ resp.arg \in DOMAIN activities
    /\ activities[resp.arg].user_id # resp.user

(* add_time_entry on an activity that does not exist has answered 404 *)
C8_WitnessAdd ==
    /\ resp.op = "add" /\ resp.status = 404 /\ resp.wrote = {}
    /\ resp.arg \notin DOMAIN activities

(* C9 -- An Update with notes stores the union of the tags it read from the *)
(* entry, the tags of its body and the tags extracted from the notes; an    *)
(* Update with tags and without notes stores exactly the tags of its body,  *)
(* so that a stored tag not among them is lost.  (SpecTags)                 *)
C9_TagMerge ==
    [][resp'.op = "update" /\ resp'.status = 200 =>
          LET eid == resp'.arg
              patch == Val(resp'.req)
              existing == IF open.op = "update" /\ open' = NoReq
                          THEN Val(open.entry_data).tags
                          ELSE time_entries[eid].tags
              supplied == IF patch.tags = None THEN << >> ELSE Val(patch.tags)
              stored == time_entries'[eid].tags
          IN  /\ patch.notes # None =>
                     stored =
                        SetToBag(BagToSet(existing)
                                    \cup {supplied[i] : i \in DOMAIN supplied}
                                    \cup BagToSet(ListBag(
                                            extract_tags_from_text(Val(patch.notes)).tags)))
              /\ patch.notes = None /\ patch.tags # None =>
                     stored = ListBag(supplied)]_vars

(* an Update with tags [x] and no notes has left an entry tagged a with x alone *)
C9_Witness ==
    /\ resp.op = "update" /\ resp.status = 200
    /\ Val(resp.req).notes = None
    /\ Val(resp.req).tags = Some(<<TagX>>)
    /\ BagIn(TagA, Val(resp.before).tags)
    /\ time_entries[resp.id].tags = SetToBag({TagX})

(* an Update with notes "#x" has left an entry tagged a with a and x *)
C9_WitnessMerge ==
    /\ resp.op = "update" /\ resp.status = 200
    /\ Val(resp.req).notes = Some(TextTagX)
    /\ Val(resp.before).tags = SetToBag({TagA})
    /\ time_entries[resp.id].tags = SetToBag({TagA, TagX})

(* C10 -- An Update that carries end_datetime stores that end, the value of *)
(* calculate_duration for the stored start and that end, and is_running     *)
(* false; a later Stop of the entry answers 400.  (SpecSerial)              *)
C10_UpdateEndCloses ==
    /\ resp.op = "update" /\ resp.status = 200
          /\ Val(resp.req).end_datetime # None =>
              LET entry == time_entries[resp.id]
                  end_datetime == TagUtc(Val(Val(resp.req).end_datetime))
              IN  /\ ~entry.is_running
                  /\ entry.end_datetime = Some(Instant(end_datetime))
                  /\ entry.duration_minutes =
                         Some(calculate_duration(Utc(entry.start_datetime),
                                                 Some(end_datetime)).value)
    /\ resp.op = "stop" /\ EntryExists(resp.arg)
          /\ time_entries[resp.arg].user_id = resp.user
          /\ ~(IF resp.before = None THEN time_entries[resp.arg]
                                     ELSE Val(resp.before)).is_running =>
              resp.status = 400

(* the user's one entry, started and then closed by an Update at 150 s, two *)
(* minutes: the Stop that followed has answered 400                         *)
C10_Witness ==
    /\ resp.op = "stop" /\ resp.status = 400
    /\ hist[resp.user] = "refused"
    /\ Len(time_entries) = 1
    /\ time_entries[resp.arg].end_datetime = Some(TickSeconds + SecondsPerMinute)
    /\ time_entries[resp.arg].duration_minutes = Some(2)
    /\ ~time_entries[resp.arg].is_running

(* C11 as stated -- For all timestamps s and e in whole seconds the         *)
(* duration stored for the range from s to e is floor((e - s) / 60), also   *)
(* when e < s, where it rounds toward minus infinity.  (SpecDuration)       *)
C11_AsStated ==
    resp.op = "add" /\ resp.status = 200 =>
        LET s == Instant(TagUtc(Val(resp.req).start_datetime))
            e == Instant(TagUtc(Val(Val(resp.req).end_datetime)))
        IN  time_entries[resp.id].duration_minutes = Some((e - s) \div SecondsPerMinute)

(* C11 -- For all timestamps s and e in whole seconds the duration stored   *)
(* for the range from s to e is (e - s) / 60 rounded toward zero: it is     *)
(* floor((e - s) / 60) when e >= s and -floor((s - e) / 60) when e < s.     *)
(* (SpecDuration)                                                           *)
C11_DurationTruncates ==
    resp.op = "add" /\ resp.status = 200 =>
        LET s == Instant(TagUtc(Val(resp.req).start_datetime))
            e == Instant(TagUtc(Val(Val(resp.req).end_datetime)))
        IN  time_entries[resp.id].duration_minutes =
               Some(IF e >= s THEN (e - s) \div SecondsPerMinute
                              ELSE -((s - e) \div SecondsPerMinute))

(* an end one and a half minutes before the start has been stored as minus  *)
(* one minute                                                               *)
C11_Witness ==
    /\ resp.op = "add" /\ resp.status = 200
    /\ time_entries[resp.id].start_datetime
          - Val(time_entries[resp.id].end_datetime) = TickSeconds
    /\ time_entries[resp.id].duration_minutes = Some(-1)

(* C12 -- A closed entry stays closed: once is_running is false no step of  *)
(* any user, in any interleaving, makes it true again or sets end_datetime  *)
(* or duration_minutes back to null.  (Spec)                                *)
C12_ClosedIsTerminal ==
    [][\A e \in DOMAIN time_entries :
          ~time_entries[e].is_running =>
              /\ e \in DOMAIN time_entries'
              /\ ~time_entries'[e].is_running
              /\ time_entries'[e].end_datetime # None
              /\ time_entries'[e].duration_minutes # None]_vars

(* a closed entry has been written by a Stop that read it while it ran, and *)
(* is closed                                                                *)
C12_Witness ==
    /\ resp.op = "stop" /\ resp.status = 200
    /\ ~Val(resp.before).is_running
    /\ ~time_entries[resp.id].is_running
    /\ time_entries[resp.id].end_datetime # None

MutationOps == {"add", "start", "stop", "update"}

(* C13 -- A mutation that answers an error has written nothing: the store   *)
(* is the same before and after it; a mutation that succeeds writes at most *)
(* one document, and no step writes before the handler's last step.  (Spec) *)
C13_NoPartialFailure ==
    [][LET written == {e \in DOMAIN time_entries' :
                          e \notin DOMAIN time_entries
                             \/ time_entries'[e] # time_entries[e]}
       IN  /\ DOMAIN time_entries \subseteq DOMAIN time_entries'
           /\ Cardinality(written) <= 1
           /\ resp'.op \in MutationOps /\ resp'.status # 200 =>
                  UNCHANGED <<activities, time_entries>>
           /\ written # {} => resp'.op \in MutationOps /\ resp'.status = 200
           /\ resp'.op \in MutationOps => UNCHANGED activities]_vars

(* an Update refused with 403 while the store holds two entries *)
C13_Witness ==
    /\ resp.op = "update" /\ resp.status = 403 /\ resp.wrote = {}
    /\ Len(time_entries) = 2

(* C14 -- No step changes the id, user_id, activity_id, start_datetime or   *)
(* created_at of a stored entry: Stop and Update leave them as written when *)
(* the entry was created.  (Spec)                                           *)
C14_CreationFieldsFixed ==
    [][\A e \in DOMAIN time_entries :
          /\ e \in DOMAIN time_entries'
          /\ time_entries'[e].id = time_entries[e].id
          /\ time_entries'[e].user_id = time_entries[e].user_id
          /\ time_entries'[e].activity_id = time_entries[e].activity_id
          /\ time_entries'[e].start_datetime = time_entries[e].start_datetime
          /\ time_entries'[e].created_at = time_entries[e].created_at]_vars

(* an entry created at 0 has been closed by an Update served one and a half *)
(* minutes later                                                            *)
C14_Witness ==
    /\ resp.op = "update" /\ resp.status = 200 /\ resp.wrote # {}
    /\ now = TickSeconds
    /\ time_entries[resp.id].created_at = 0
    /\ time_entries[resp.id].start_datetime = 0
    /\ Val(resp.before).is_running

(* C17 -- In every reachable state the activity_id of every stored entry    *)
(* names a stored activity whose user_id is the entry's user_id, and the    *)
(* activity name in the response of a mutation is never the fallback        *)
(* "Unknown".  (Spec)                                                       *)
C17_ActivityReference ==
    /\ \A e \in DOMAIN time_entries :
           /\ time_entries[e].activity_id \in DOMAIN activities
           /\ activities[time_entries[e].activity_id].user_id
                  = time_entries[e].user_id
    /\ resp.op \in MutationOps /\ resp.status = 200 =>
           Val(resp.body).activity_name # "Unknown"

(* each of two users has an entry on an activity of their own *)
C17_Witness ==
    /\ Len(time_entries) = 2 /\ Len(activities) = 2
    /\ time_entries[1].user_id # time_entries[2].user_id
    /\ time_entries[1].activity_id # time_entries[2].activity_id

(* C18 as stated -- The stored tags of every entry hold no value twice,     *)
(* after any sequence of add, start, stop and update requests.  (SpecTags)  *)
C18_AsStated ==
    \A e \in DOMAIN time_entries :
        \A t \in BagToSet(time_entries[e].tags) :
            CopiesIn(t, time_entries[e].tags) = 1

(* the status of a mutation as the documents of its caller alone determine  *)
(* it; foreign is the status for an entry that is another user's            *)
OwnOutcome(op, uid, arg, req, foreign) ==
    LET own_activity == arg \in DOMAIN activities /\ activities[arg].user_id = uid
        own_entry == arg \in DOMAIN time_entries /\ time_entries[arg].user_id = uid
        own_running == \E e \in DOMAIN time_entries :
                           time_entries[e].user_id = uid /\ time_entries[e].is_running
    IN  CASE op = "add" ->
                 IF ~own_activity THEN 404
                 ELSE IF Val(req).end_datetime = None THEN 500 ELSE 200
          [] op = "start" ->
                 IF ~own_activity THEN 404 ELSE IF own_running THEN 400 ELSE 200
          [] op = "stop" ->
                 IF arg \notin DOMAIN time_entries THEN 404
                 ELSE IF ~own_entry THEN foreign
                 ELSE IF ~time_entries[arg].is_running THEN 400 ELSE 200
          [] op = "update" ->
                 IF arg \notin DOMAIN time_entries THEN 404
                 ELSE IF ~own_entry THEN foreign ELSE 200

(* a step writes documents of its caller only, and where a mutation reads   *)
(* the store its status is OwnOutcome                                       *)
OwnerPartitioned(foreign) ==
    /\ \A e \in DOMAIN time_entries' :
           e \notin DOMAIN time_entries \/ time_entries'[e] # time_entries[e] =>
               time_entries'[e].user_id = resp'.user
    /\ \A e \in DOMAIN time_entries :
           time_entries[e].user_id # resp'.user =>
               e \in DOMAIN time_entries' /\ time_entries'[e] = time_entries[e]
    /\ \A a \in DOMAIN activities :
           a \in DOMAIN activities' /\ activities'[a] = activities[a]
    /\ \A a \in DOMAIN activities' :
           a \notin DOMAIN activities => activities'[a].user_id = resp'.user
    /\ resp'.op \in MutationOps /\ open' = open =>
           resp'.status = OwnOutcome(resp'.op, resp'.user, resp'.arg, resp'.req, foreign)
    /\ open.op = "none" /\ open'.op # "none" =>
           OwnOutcome(open'.op, open'.user, open'.id, open'.body, foreign) = 200

(* C16 as stated -- Requests of different owners do not interfere: every    *)
(* step writes documents of its caller only, and the status of every        *)
(* mutation is what the caller's own documents determine, as if no other    *)
(* owner had created anything.  (Spec)                                      *)
C16_AsStated == [][OwnerPartitioned(404)]_vars

(* C16 -- Requests of different owners do not interfere, but for this: a    *)
(* Stop or Update naming an entry id answers 403 once another owner has     *)
(* created that entry and 404 before.  Every step writes documents of its   *)
(* caller only, and the status of every other mutation is what the caller's *)
(* own documents determine; a running entry of another owner never makes a  *)
(* Start answer 400.  (Spec)                                                *)
C16_OwnersDoNotInterfere == [][OwnerPartitioned(403)]_vars

(* a Start has answered 200 while another owner has a running entry *)
C16_Witness ==
    /\ resp.op = "start" /\ resp.status = 200
    /\ \E e \in DOMAIN time_entries :
           time_entries[e].user_id # resp.user /\ time_entries[e].is_running

QueryOps == {"list", "today", "date", "month", "year", "tag", "running"}
TotalOps == QueryOps \ {"running"}

(* C15 -- No request reads or writes an entry of another user: Stop and     *)
(* Update on such an entry answer 403 and write nothing, a step changes     *)
(* entries of its caller only, and every query (list, today, date, month,   *)
(* year, tag, running) returns entries of its caller only.  (SpecQuery)     *)
C15_OwnEntriesOnly ==
    [][/\ resp'.op \in {"stop", "update"}
          /\ resp'.arg \in DOMAIN time_entries
          /\ time_entries[resp'.arg].user_id # resp'.user =>
              resp'.status = 403 /\ UNCHANGED time_entries
       /\ \A e \in DOMAIN time_entries :
              time_entries'[e] # time_entries[e] =>
                  time_entries[e].user_id = resp'.user
       /\ resp'.op \in QueryOps =>
              \A i \in DOMAIN Val(resp'.body).entries :
                  /\ Val(resp'.body).entries[i].id \in DOMAIN time_entries
                  /\ time_entries[Val(resp'.body).entries[i].id].user_id
                         = resp'.user]_vars

(* of two entries of two users that carry one tag, the query for the tag    *)
(* has returned the caller's alone                                          *)
C15_Witness ==
    /\ resp.op = "tag" /\ Len(Val(resp.body).entries) = 1
    /\ Len(time_entries) = 2
    /\ time_entries[1].user_id # time_entries[2].user_id
    /\ \A e \in DOMAIN time_entries : BagIn(Val(resp.req), time_entries[e].tags)

(* C19 -- The query for a day (today, or a given date) returns exactly the  *)
(* caller's entries whose start lies in the closed interval from the day's  *)
(* first instant to its last, each once: an entry that starts at either end *)
(* is returned, one that starts a minute after the last instant is not.     *)
(* (SpecQuery)                                                              *)
C19_DayIsClosedInterval ==
    resp.op \in {"today", "date"} =>
        LET first == Ordinal(Val(resp.req)) * SecondsPerDay
            last == first + SecondsPerDay - 1
            entries == Val(resp.body).entries
        IN  /\ {entries[i].id : i \in DOMAIN entries} =
                   {e \in DOMAIN time_entries :
                       /\ time_entries[e].user_id = resp.user
                       /\ first <= time_entries[e].start_datetime
                       /\ time_entries[e].start_datetime <= last}
            /\ \A i, j \in DOMAIN entries :
                   entries[i].id = entries[j].id => i = j

(* of the caller's entries at the last instant of the day and one minute    *)
(* later, the query for today has returned the first alone                  *)
C19_Witness ==
    /\ resp.op = "today" /\ Len(Val(resp.body).entries) = 1
    /\ Val(resp.body).entries[1].start_datetime = SecondsPerDay - 1
    /\ \E e \in DOMAIN time_entries :
           /\ time_entries[e].user_id = resp.user
           /\ time_entries[e].start_datetime = SecondsPerDay - 1 + SecondsPerMinute

(* the query for a date has returned the entries at its first and at its    *)
(* last instant                                                             *)
C19_WitnessBothEnds ==
    /\ resp.op = "date" /\ Len(Val(resp.body).entries) = 2
    /\ Val(resp.body).entries[1].start_datetime = SecondsPerDay - 1
    /\ Val(resp.body).entries[2].start_datetime = 0

(* the sum of the non-null durations of returned entries *)
RECURSIVE SumOfDurations(_)
SumOfDurations(entries) ==
    IF entries = << >> THEN 0
    ELSE (IF Head(entries).duration_minutes = None THEN 0
          ELSE Val(Head(entries).duration_minutes))
             + SumOfDurations(Tail(entries))

(* C20 -- In every query that returns totals, total_minutes is the sum of   *)
(* duration_minutes over the returned entries that have one: running        *)
(* entries and entries of zero minutes add 0, negative durations are added  *)
(* as they are.  (SpecQuery)                                                *)
C20_TotalIsSum ==
    resp.op \in TotalOps =>
        Val(resp.body).total_minutes = SumOfDurations(Val(resp.body).entries)

(* entries of 30 and of minus one minute have been totalled as 29 *)
C20_Witness ==
    /\ resp.op = "list" /\ Len(Val(resp.body).entries) = 2
    /\ \E i \in 1 .. 2 : Val(resp.body).entries[i].duration_minutes = Some(-1)
    /\ Val(resp.body).total_minutes = 29

(* a running entry and one of 45 minutes have been totalled as 45 *)
C20_WitnessRunning ==
    /\ resp.op \in TotalOps /\ Len(Val(resp.body).entries) = 2
    /\ \E i \in 1 .. 2 : Val(resp.body).entries[i].duration_minutes = None
    /\ Val(resp.body).total_minutes = 45

(* C21 -- For every notes text t, extracting again from the clean text of   *)
(* t returns that clean text and no tag: what add_time_entry stores as      *)
(* notes is the clean text of t (null when empty), and that text holds no   *)
(* '#' followed by a word character.  (SpecNotes)                           *)
C21_ExtractIdempotent ==
    resp.op = "add" /\ resp.status = 200 =>
        LET t == Val(Val(resp.req).notes)
            first == extract_tags_from_text(t)
            again == extract_tags_from_text(first.clean)
        IN  /\ again.clean = first.clean
            /\ again.tags = << >>
            /\ time_entries[resp.id].notes =
                   (IF first.clean = << >> THEN None ELSE Some(first.clean))
            /\ time_entries[resp.id].tags = ListSet(first.tags)

(* a tag has been taken out of notes whose clean text still holds a '#' *)
C21_Witness ==
    /\ resp.op = "add" /\ resp.status = 200
    /\ time_entries[resp.id].tags # EmptyBag
    /\ time_entries[resp.id].notes # None
    /\ \E i \in DOMAIN Val(time_entries[resp.id].notes) :
           Val(time_entries[resp.id].notes)[i] = "#"

(* two spaces between a '#' and a word have been collapsed to one: the      *)
(* stored notes are "# a"                                                   *)
C21_WitnessCollapse ==
    /\ resp.op = "add" /\ resp.status = 200
    /\ Val(Val(resp.req).notes) = <<"#", " ", " ", "a">>
    /\ time_entries[resp.id].notes = Some(<<"#", " ", "a">>)

(* C22 as stated -- An Update that carries notes never removes a tag, also  *)
(* when Updates of one entry overlap: every tag stored on the entry just    *)
(* before the Update's write is stored on it just after.  (SpecTags)        *)
C22_AsStated ==
    [][resp'.op = "update" /\ resp'.status = 200
          /\ Val(resp'.req).notes # None =>
              \A t \in BagToSet(time_entries[resp'.arg].tags) :
                  BagIn(t, time_entries'[resp'.arg].tags)]_vars

(* C23 as stated -- For one entry at most one Stop succeeds, also when Stop *)
(* calls, or a Stop and an Update carrying end_datetime, overlap: a Stop    *)
(* that answers 200 has written an entry that was running and had no end    *)
(* just before the write.  (Spec)                                           *)
C23_AsStated ==
    resp.op = "stop" /\ resp.status = 200 =>
        /\ Val(resp.before).is_running
        /\ Val(resp.before).end_datetime = None

(* C24 -- In every reachable state, under any interleaving of Stop and      *)
(* Update calls, the duration_minutes of every closed entry is the value of *)
(* calculate_duration for the entry's own stored start and stored end.      *)
(* (Spec)                                                                   *)
C24_DurationConsistent ==
    \A e \in DOMAIN time_entries :
        ~time_entries[e].is_running =>
            /\ time_entries[e].end_datetime # None
            /\ time_entries[e].duration_minutes =
                   Some(calculate_duration(
                            Utc(time_entries[e].start_datetime),
                            Some(Utc(Val(time_entries[e].end_datetime)))).value)

(* a Stop that read the entry while it ran has written, one and a half      *)
(* minutes after the start, over the end an Update had set at 150 s: the    *)
(* entry holds the Stop's end and one minute                                *)
C24_Witness ==
    /\ resp.op = "stop" /\ resp.status = 200
    /\ Val(resp.before).end_datetime = Some(TickSeconds + SecondsPerMinute)
    /\ Val(resp.before).duration_minutes = Some(2)
    /\ time_entries[resp.id].end_datetime = Some(TickSeconds)
    /\ time_entries[resp.id].duration_minutes = Some(1)

(* an Update that read the entry while it ran has written its end of 150 s  *)
(* over the end a Stop had set: the entry holds the Update's end and two    *)
(* minutes                                                                  *)
C24_WitnessUpdateLast ==
    /\ resp.op = "update" /\ resp.status = 200
    /\ Val(resp.before).end_datetime = Some(TickSeconds)
    /\ Val(resp.before).duration_minutes = Some(1)
    /\ time_entries[resp.id].end_datetime = Some(TickSeconds + SecondsPerMinute)
    /\ time_entries[resp.id].duration_minutes = Some(2)

(* C25 -- A Start answers 200 exactly when, at its reads, the activity      *)
(* exists and is the caller's and the caller has no running entry, also     *)
(* after an earlier running entry was closed by a Stop or by an Update      *)
(* carrying end_datetime; a Start that succeeds inserts exactly one entry,  *)
(* with start_datetime and created_at the time of the insert, end_datetime, *)
(* duration_minutes and notes null, no tags and is_running true.  (Spec)    *)
C25_StartEnabled ==
    [][LET uid == IF open' = open THEN resp'.user ELSE open'.user
           aid == IF open' = open THEN resp'.arg ELSE open'.id
           owned == aid \in DOMAIN activities /\ activities[aid].user_id = uid
           idle == \A e \in DOMAIN time_entries :
                       time_entries[e].user_id = uid => ~time_entries[e].is_running
           inserted ==
               time_entries' =
                   Append(time_entries,
                          [id |-> Len(time_entries) + 1,
                           activity_id |-> resp'.arg,
                           start_datetime |-> now',
                           end_datetime |-> None,
                           duration_minutes |-> None,
                           notes |-> None,
                           tags |-> EmptyBag,
                           is_running |-> TRUE,
                           created_at |-> now',
                           user_id |-> resp'.user])
       IN  /\ resp'.op = "start" /\ open' = open =>
                  /\ resp'.status = 200 <=> owned /\ idle
                  /\ resp'.status = 200 => inserted
           /\ open.op = "none" /\ open'.op = "start" => owned /\ idle
           /\ open.op = "start" /\ open' = NoReq =>
                  /\ resp'.op = "start" /\ resp'.status = 200
                  /\ resp'.user = open.user /\ resp'.arg = open.id
                  /\ inserted]_vars

(* a Start has answered 200 for a user whose earlier entry, started at 0,   *)
(* was closed by a Stop one and a half minutes later                        *)
C25_Witness ==
    /\ resp.op = "start" /\ resp.status = 200
    /\ time_entries[resp.id].is_running
    /\ time_entries[resp.id].start_datetime = now
    /\ \E e \in DOMAIN time_entries :
           /\ e # resp.id
           /\ time_entries[e].user_id = resp.user
           /\ time_entries[e].start_datetime = 0
           /\ time_entries[e].end_datetime = Some(TickSeconds)

(* a Start has answered 200 for a user whose earlier entry was closed by an *)
(* Update with end_datetime 150 s                                           *)
C25_WitnessAfterUpdate ==
    /\ resp.op = "start" /\ resp.status = 200
    /\ time_entries[resp.id].is_running
    /\ \E e \in DOMAIN time_entries :
           /\ e # resp.id
           /\ time_entries[e].user_id = resp.user
           /\ time_entries[e].end_datetime = Some(TickSeconds + SecondsPerMinute)

(* C26 -- Start checks the activity before the running-entry rule: a Start  *)
(* that names a missing activity or another user's answers 404 also when    *)
(* the caller has a running entry, and a Start answers 400 only for an      *)
(* activity of the caller, the caller having a running entry.  (Spec)       *)
C26_ActivityCheckedFirst ==
    resp.op = "start" =>
        LET owned == /\ resp.arg \in DOMAIN activities
                     /\ activities[resp.arg].user_id = resp.user
            running == \E e \in DOMAIN time_entries :
                           /\ time_entries[e].user_id = resp.user
                           /\ time_entries[e].is_running
        IN  /\ ~owned => resp.status = 404 /\ resp.wrote = {}
            /\ resp.status = 400 => owned /\ running /\ resp.wrote = {}
            /\ resp.status = 404 => ~owned

(* a Start on another user's activity has answered 404 while the caller has *)
(* a running entry                                                          *)
C26_Witness ==
    /\ resp.op = "start" /\ resp.status = 404
    /\ resp.arg \in DOMAIN activities
    /\ activities[resp.arg].user_id # resp.user
    /\ \E e \in DOMAIN time_entries :
           time_entries[e].user_id = resp.user /\ time_entries[e].is_running

(* a Start on an activity that does not exist has answered 404 while the    *)
(* caller has a running entry                                               *)
C26_WitnessMissing ==
    /\ resp.op = "start" /\ resp.status = 404
    /\ resp.arg \notin DOMAIN activities
    /\ \E e \in DOMAIN time_entries :
           time_entries[e].user_id = resp.user /\ time_entries[e].is_running

(* a Start on an activity of the caller has answered 400 *)
C26_WitnessConflict ==
    /\ resp.op = "start" /\ resp.status = 400
    /\ activities[resp.arg].user_id = resp.user
    /\ \E e \in DOMAIN time_entries :
           time_entries[e].user_id = resp.user /\ time_entries[e].is_running

====
